---- MODULE Spec2Model ----
(***************************************************************************)
(* A model of src/main.py: the PPE detection loop (cv_loop, main thread),  *)
(* the dashboard HTTP server (run_server / DashboardHandler, one daemon    *)
(* thread) and the two lock-protected globals they share                   *)
(* (current_ppe_status under status_lock, latest_frame under frame_lock).  *)
(***************************************************************************)
EXTENDS Integers, Sequences, FiniteSets, TLC

(* ------------------------------------------------------------------ *)
(* Bounds of the model                                                 *)
(* ------------------------------------------------------------------ *)

\* Frames the capture device delivers before cap.read() reports the end,
\* when the server runs beside the detection loop.
MaxFrames == 2
\* The same, for the detection loop checked on its own.
MaxFramesCv == 3
\* Connections waiting in the listen queue of the server socket.
MaxBacklog == 1
\* The clock readings of a run lie in StartTime .. MaxTime.
MaxTime == 4
\* Most seconds that pass between two successive readings of the clock.
MaxStep == 1
\* Longest list of boxes of one inference in the specification of the
\* status derivation.
MaxBoxes == 3

(* ------------------------------------------------------------------ *)
(* Configuration (section 1 of main.py)                                *)
(* ------------------------------------------------------------------ *)

SEND_INTERVAL == 1

\* time.time() when the module is loaded: seconds since the epoch, far
\* more than SEND_INTERVAL after 0.
StartTime == 2

\* Python's None for a variable that otherwise holds a dict, an array or a
\* message: the value with no fields.
None == <<>>

(* ------------------------------------------------------------------ *)
(* State                                                               *)
(* ------------------------------------------------------------------ *)

VARIABLES
    \* shared globals (section 2)
    current_ppe_status, status_lock, latest_frame, frame_lock,
    \* main thread: __main__ and cv_loop
    pc, cap, captured, boxes, ppe_status_local, annotated_frame,
    last_send, current_time, raised, posts,
    \* the clock, the ESP32 and the frames the capture device delivers
    now, esp32, frames,
    \* server thread: serve_forever and the handler of the accepted request
    srvpc, backlog, alive, response, frame, wire,
    \* history: the last status a cycle has published in full, and how many
    \* statuses and frames the cycles have published
    lastStatus, nStatus, nFrames

shared == <<current_ppe_status, status_lock, latest_frame, frame_lock>>
cvLocals == <<cap, captured, boxes, ppe_status_local, annotated_frame,
              last_send, current_time, raised, posts>>
srvVars == <<srvpc, backlog, alive, response, frame, wire>>
history == <<lastStatus, nStatus, nFrames>>
env == <<now, esp32, frames>>
vars == <<shared, pc, cvLocals, env, srvVars, history>>

(* ------------------------------------------------------------------ *)
(* Python helpers                                                      *)
(* ------------------------------------------------------------------ *)

\* Python's `sub in s` on strings.
StrIn(sub, s) ==
    \E i \in 1..(Len(s) - Len(sub) + 1) : SubSeq(s, i, i + Len(sub) - 1) = sub

\* The dict rebound to the other dict instead of updated with it.
DictAssign(d, other) == other

\* dict.update(other): the keys of other are added or overwritten.
DictUpdate(d, other) ==
    [k \in (DOMAIN d) \cup (DOMAIN other) |->
        IF k \in DOMAIN other THEN other[k] ELSE d[k]]

\* d[key] = value
DictSet(d, key, value) ==
    [k \in (DOMAIN d) \cup {key} |-> IF k = key THEN value ELSE d[k]]

Min(a, b) == IF a < b THEN a ELSE b

\* str(n) of a natural number: its decimal digits.
Digit(d) == SubSeq("0123456789", d + 1, d + 1)

RECURSIVE ToDecimal(_)
ToDecimal(n) ==
    IF n < 10 THEN Digit(n) ELSE ToDecimal(n \div 10) \o Digit(n % 10)

\* The keys of the status dicts in insertion order.
KeyOrder == <<"hardhat", "vest", "mask", "timestamp">>

\* json.dumps of one value: the item flags are ints, the timestamp a float.
JsonValue(key, v) ==
    IF key = "timestamp" THEN ToDecimal(v) \o ".0" ELSE ToDecimal(v)

\* json.dumps(d) of a status dict: the members in insertion order.
RECURSIVE JsonMembers(_, _, _)
JsonMembers(d, i, first) ==
    IF i > Len(KeyOrder) THEN ""
    ELSE IF KeyOrder[i] \notin DOMAIN d THEN JsonMembers(d, i + 1, first)
    ELSE (IF first THEN "" ELSE ", ")
         \o "\"" \o KeyOrder[i] \o "\": " \o JsonValue(KeyOrder[i], d[KeyOrder[i]])
         \o JsonMembers(d, i + 1, FALSE)

JsonDumps(d) == "{" \o JsonMembers(d, 1, TRUE) \o "}"

(* ------------------------------------------------------------------ *)
(* The detection collaborator's output and the status derivation       *)
(* (cv_loop, section 4.1)                                              *)
(* ------------------------------------------------------------------ *)

\* model.names: the class names of the PPE model.
Labels ==
    {"Hardhat", "Mask", "NO-Hardhat", "NO-Mask", "NO-Safety Vest",
     "Person", "Safety Vest"}

\* The recognised items.
Items == {"hardhat", "vest", "mask"}

\* ppe_status_local as each cycle initialises it.
AllPresent == [hardhat |-> 1, vest |-> 1, mask |-> 1]

\* The loop body testing for the item's name instead of its NO- label.
ApplyLabelPresence(st, label) ==
    LET a == IF StrIn("Hardhat", label) THEN DictSet(st, "hardhat", 0) ELSE st
        b == IF StrIn("Safety Vest", label) THEN DictSet(a, "vest", 0) ELSE a
    IN  IF StrIn("Mask", label) THEN DictSet(b, "mask", 0) ELSE b

\* The body of the for loop: the three substring tests on one label.
ApplyLabel(st, label) ==
    LET a == IF StrIn("NO-Hardhat", label)
             THEN DictSet(st, "hardhat", 0) ELSE st
        b == IF StrIn("NO-Safety Vest", label)
             THEN DictSet(a, "vest", 0) ELSE a
    IN  IF StrIn("NO-Mask", label) THEN DictSet(b, "mask", 0) ELSE b

\* The for loop over results[0].boxes, in order, from the status st.
RECURSIVE ForBoxes(_, _)
ForBoxes(st, bs) ==
    IF bs = <<>> THEN st ELSE ForBoxes(ApplyLabel(st, Head(bs)), Tail(bs))

\* The status dict initialised once, before the while loop: each cycle
\* starts from the status of the cycle before.
DeriveStatusCarry(bs) ==
    ForBoxes(IF ppe_status_local = None THEN AllPresent ELSE ppe_status_local,
             bs)

\* ppe_status_local at the end of section 4.1.
DeriveStatus(bs) == ForBoxes(AllPresent, bs)

\* results[0].plot(): the captured frame with the boxes drawn on it.
Plot(image, bs) == [img |-> image, drawn |-> Len(bs)]

\* The lists of boxes the inference returns in the model of the whole
\* program.
Detections ==
    { <<>>, <<"NO-Hardhat">>, <<"NO-Mask", "Person", "NO-Safety Vest">> }

\* All lists of at most n labels.
BoxSeqs(n) == UNION { [1..k -> Labels] : k \in 0..n }

\* The initial value of current_ppe_status.
InitialStatus ==
    [hardhat |-> 1, vest |-> 1, mask |-> 1, timestamp |-> StartTime]

InitShared ==
    /\ current_ppe_status = InitialStatus
    /\ status_lock = "free"
    /\ latest_frame = None
    /\ frame_lock = "free"

InitCv ==
    /\ pc = "start"
    /\ cap = "unopened"
    /\ captured = 0
    /\ boxes = <<>>
    /\ ppe_status_local = None
    /\ annotated_frame = None
    /\ last_send = 0
    /\ current_time = 0
    /\ raised = FALSE
    /\ posts = 0

InitServer ==
    /\ srvpc = "unstarted"
    /\ backlog = 0
    /\ alive = FALSE
    /\ response = None
    /\ frame = None
    /\ wire = None

\* The process as it starts, with a capture device that holds n frames.
InitFrames(n) ==
    /\ InitShared
    /\ InitCv
    /\ InitServer
    /\ now = StartTime
    /\ esp32 = [state |-> "idle", body |-> ""]
    /\ frames = n
    /\ lastStatus = InitialStatus
    /\ nStatus = 0
    /\ nFrames = 0

Init == InitFrames(MaxFrames)

\* The process runs until the main thread ends; the server thread is a
\* daemon thread and ends with it.
ProcessAlive == pc \notin {"exited", "crashed"}

\* threading.Lock: acquire() succeeds only on a free lock.
LockFree(lock) == lock = "free"

\* time.time(): a reading t no earlier than the last one.
TimeTime(t) == t \in now..Min(now + MaxStep, MaxTime)

(* ------------------------------------------------------------------ *)
(* Main thread: __main__ and cv_loop                                   *)
(* ------------------------------------------------------------------ *)

\* __main__: the server thread is started as a daemon; then cv_loop runs.
StartServer ==
    /\ pc = "start"
    /\ srvpc' = "serve"
    /\ pc' = "load_model"
    /\ UNCHANGED <<shared, cvLocals, env, backlog, alive,
                   response, frame, wire, history>>

\* model = YOLO(MODEL_PATH): on an exception cv_loop returns.
LoadModel ==
    /\ pc = "load_model"
    /\ \E ok \in BOOLEAN : pc' = IF ok THEN "open_cap" ELSE "join"
    /\ UNCHANGED <<shared, cvLocals, env, srvVars, history>>

\* cap = cv2.VideoCapture(0); cv_loop returns when it is not opened.
OpenCapture ==
    /\ pc = "open_cap"
    /\ \E opened \in BOOLEAN :
          IF opened
          THEN /\ cap' = "open"
               /\ last_send' = 0
               /\ pc' = "read"
          ELSE /\ pc' = "join"
               /\ UNCHANGED <<cap, last_send>>
    /\ UNCHANGED <<shared, captured, boxes, ppe_status_local, annotated_frame,
                   current_time, raised, posts, env, srvVars, history>>

\* ret, frame = cap.read(): the next frame, or the end of the loop.
CapRead ==
    /\ pc = "read"
    /\ \/ /\ captured < frames
          /\ captured' = captured + 1
          /\ posts' = 0
          /\ pc' = "infer"
       \/ /\ pc' = "finally"
          /\ UNCHANGED <<captured, posts>>
    /\ UNCHANGED <<shared, cap, boxes, ppe_status_local, annotated_frame,
                   last_send, current_time, raised, env, srvVars,
                   history>>

\* Section 4.1 followed by the publish of the frame, with no publish of the
\* status before it.
DetectFrameFirst(bs) ==
    /\ boxes' = bs
    /\ ppe_status_local' = DeriveStatus(bs)
    /\ annotated_frame' = Plot(captured, bs)
    /\ pc' = "frame_acq"
    /\ UNCHANGED raised

\* Section 4.1 on the boxes bs of one inference.
Detect(bs) ==
    /\ boxes' = bs
    /\ ppe_status_local' = DeriveStatus(bs)
    /\ annotated_frame' = Plot(captured, bs)
    /\ pc' = "status_acq"
    /\ UNCHANGED raised

\* results = model(frame): the inference returns one of the lists of boxes
\* in D and section 4.1 runs on it, or the call raises and the exception
\* leaves the loop.
InferFrom(D) ==
    /\ pc = "infer"
    /\ \/ \E bs \in D : Detect(bs)
       \/ /\ raised' = TRUE
          /\ pc' = "finally"
          /\ UNCHANGED <<boxes, ppe_status_local, annotated_frame>>
    /\ UNCHANGED <<shared, cap, captured, last_send, current_time, posts,
                   env, srvVars, history>>

Infer == InferFrom(Detections)

\* with status_lock: (entry)
CvStatusAcquire ==
    /\ pc = "status_acq"
    /\ LockFree(status_lock)
    /\ status_lock' = "main"
    /\ pc' = "status_update"
    /\ UNCHANGED <<current_ppe_status, latest_frame, frame_lock, cvLocals,
                   env, srvVars, history>>

\* current_ppe_status.update(ppe_status_local)
CvStatusUpdate ==
    /\ pc = "status_update"
    /\ current_ppe_status' = DictUpdate(current_ppe_status, ppe_status_local)
    /\ pc' = "status_stamp"
    /\ UNCHANGED <<status_lock, latest_frame, frame_lock, cvLocals, env, srvVars, history>>

\* current_ppe_status["timestamp"] = time.time(), and the end of the with
\* block.
CvStatusStamp ==
    /\ pc = "status_stamp"
    /\ \E t \in StartTime..MaxTime :
          /\ TimeTime(t)
          /\ now' = t
          /\ current_ppe_status' = DictSet(current_ppe_status, "timestamp", t)
    /\ lastStatus' = DictSet(ppe_status_local, "timestamp", now')
    /\ nStatus' = nStatus + 1
    /\ status_lock' = "free"
    /\ pc' = "frame_acq"
    /\ UNCHANGED <<latest_frame, frame_lock, cvLocals, esp32, frames, srvVars,
                   nFrames>>

\* with frame_lock: (entry)
CvFrameAcquire ==
    /\ pc = "frame_acq"
    /\ LockFree(frame_lock)
    /\ frame_lock' = "main"
    /\ pc' = "frame_pub"
    /\ UNCHANGED <<current_ppe_status, status_lock, latest_frame, cvLocals,
                   env, srvVars, history>>

\* latest_frame = annotated_frame.copy(), and the end of the with block.
CvFramePublish ==
    /\ pc = "frame_pub"
    /\ latest_frame' = annotated_frame
    /\ nFrames' = nFrames + 1
    /\ frame_lock' = "free"
    /\ pc' = "time_check"
    /\ UNCHANGED <<current_ppe_status, status_lock, cvLocals, env,
                   srvVars, lastStatus, nStatus>>

\* The test of section 4.3 on the elapsed time.
SendDue(t, last) == t - last > SEND_INTERVAL

\* cv2.imshow, then current_time = time.time() and the interval test.
CvTimeCheck ==
    /\ pc = "time_check"
    /\ \E t \in StartTime..MaxTime :
          /\ TimeTime(t)
          /\ now' = t
          /\ current_time' = t
          /\ pc' = IF SendDue(t, last_send) THEN "post" ELSE "waitkey"
    /\ UNCHANGED <<shared, cap, captured, boxes, ppe_status_local,
                   annotated_frame, last_send, raised, posts, esp32, frames, srvVars,
                   history>>

\* The request carrying the status store instead of the cycle's local dict.
CvPostGlobal ==
    /\ pc = "post"
    /\ esp32' = [state |-> "inflight", body |-> JsonDumps(current_ppe_status)]
    /\ posts' = posts + 1
    /\ pc' = "post_wait"
    /\ UNCHANGED <<shared, frames, cap, captured, boxes, ppe_status_local,
                   annotated_frame, last_send, current_time, raised, now,
                   srvVars, history>>

\* requests.post(ESP32_URL, json=ppe_status_local, timeout=0.5): the request
\* is sent and the call waits for its outcome.
CvPost ==
    /\ pc = "post"
    /\ esp32' = [state |-> "inflight", body |-> JsonDumps(ppe_status_local)]
    /\ posts' = posts + 1
    /\ pc' = "post_wait"
    /\ UNCHANGED <<shared, frames, cap, captured, boxes, ppe_status_local,
                   annotated_frame, last_send, current_time, raised, now,
                   srvVars, history>>

\* What a request can end in: a 200 response, another response, a timeout,
\* a connection error, any other exception.
Outcomes == {"200", "500", "Timeout", "ConnectionError", "Exception"}

\* The device, the network or the requests library decides the outcome.
Esp32Respond ==
    /\ esp32.state = "inflight"
    /\ ProcessAlive
    /\ \E o \in Outcomes : esp32' = [esp32 EXCEPT !.state = o]
    /\ UNCHANGED <<shared, frames, pc, cvLocals, now, srvVars, history>>

\* The try statement without its last clause, except Exception: any other
\* exception leaves the loop.
AfterPostUncaught(o) == IF o = "Exception" THEN "finally" ELSE "set_last_send"

\* Where cv_loop goes on when the request has ended in outcome o: the try
\* statement handles every outcome and last_send = current_time follows.
AfterPost(o) == "set_last_send"

\* requests.post returns or raises; the status test and the except clauses.
CvPostReturn ==
    /\ pc = "post_wait"
    /\ esp32.state \in Outcomes
    /\ pc' = AfterPost(esp32.state)
    /\ raised' = (pc' = "finally")
    /\ UNCHANGED <<shared, cap, captured, boxes, ppe_status_local,
                   annotated_frame, last_send, current_time, posts, env,
                   srvVars, history>>

\* The timer reset only when the device has answered 200.
CvSetLastSendOnSuccess ==
    /\ pc = "set_last_send"
    /\ last_send' = IF esp32.state = "200" THEN current_time ELSE last_send
    /\ esp32' = [state |-> "idle", body |-> ""]
    /\ pc' = "waitkey"
    /\ UNCHANGED <<shared, cap, captured, boxes, ppe_status_local,
                   annotated_frame, current_time, raised, posts, now, frames,
                   srvVars, history>>

\* last_send = current_time; the response or exception of the request is
\* dropped.
CvSetLastSend ==
    /\ pc = "set_last_send"
    /\ last_send' = current_time
    /\ esp32' = [state |-> "idle", body |-> ""]
    /\ pc' = "waitkey"
    /\ UNCHANGED <<shared, cap, captured, boxes, ppe_status_local,
                   annotated_frame, current_time, raised, posts, now, frames,
                   srvVars, history>>

\* if cv2.waitKey(1) & 0xFF == ord('q'): break
CvWaitKey ==
    /\ pc = "waitkey"
    /\ \E quit \in BOOLEAN : pc' = IF quit THEN "finally" ELSE "read"
    /\ UNCHANGED <<shared, cvLocals, env, srvVars, history>>

\* The cleanup placed after the loop instead of in a finally clause: an
\* exception in flight skips it.
CvCleanupAfterLoop ==
    /\ pc = "finally"
    /\ cap' = IF raised THEN cap ELSE "released"
    /\ pc' = IF raised THEN "crashed" ELSE "join"
    /\ UNCHANGED <<shared, captured, boxes, ppe_status_local, annotated_frame,
                   last_send, current_time, raised, posts, env,
                   srvVars, history>>

\* finally: cap.release(); an exception in flight then leaves cv_loop and
\* ends the main thread, otherwise cv_loop returns.
CvFinally ==
    /\ pc = "finally"
    /\ cap' = "released"
    /\ pc' = IF raised THEN "crashed" ELSE "join"
    /\ UNCHANGED <<shared, captured, boxes, ppe_status_local, annotated_frame,
                   last_send, current_time, raised, posts, env,
                   srvVars, history>>

\* server_thread.join(timeout=1), then the process ends.
Join ==
    /\ pc = "join"
    /\ pc' = "exited"
    /\ UNCHANGED <<shared, cvLocals, env, srvVars, history>>

\* The steps of the main thread up to the end of cv_loop.
CvSteps ==
    \/ StartServer
    \/ LoadModel
    \/ OpenCapture
    \/ CapRead
    \/ Infer
    \/ CvStatusAcquire
    \/ CvStatusUpdate
    \/ CvStatusStamp
    \/ CvFrameAcquire
    \/ CvFramePublish
    \/ CvTimeCheck
    \/ CvPost
    \/ CvPostReturn
    \/ CvSetLastSend
    \/ CvWaitKey
    \/ CvFinally

CvNext == CvSteps \/ Join

(* ------------------------------------------------------------------ *)
(* Server thread: run_server and DashboardHandler                      *)
(* ------------------------------------------------------------------ *)

\* The request paths the clients ask for.
Paths == {"/", "/status", "/video_feed", "/favicon.ico"}

\* do_GET: the handler method of a path.
Route(path) ==
    IF path = "/" THEN "html"
    ELSE IF path = "/status" THEN "status"
    ELSE IF path = "/video_feed" THEN "feed"
    ELSE "404"

\* send_response(code) with the header lines up to end_headers().
ResponseHead(code, ctype) ==
    [code |-> code, ctype |-> ctype, body |-> "", part |-> None]

\* _load_html_content: the file's text, or the message of the except clause.
LoadHtmlContent(outcome) ==
    IF outcome = "ok" THEN "<!DOCTYPE html>"
    ELSE IF outcome = "FileNotFoundError"
    THEN "Error: index.html not found. Ensure it is in the same directory."
    ELSE "Error reading index.html: " \o outcome

\* cv2.imencode('.jpg', frame) and buffer.tobytes(): the JPEG bytes of a
\* frame; their number depends on the picture.
Encode(f) == [i \in 1..(8 + f.img + f.drawn) |-> 255]

\* The length of the part's payload counted with its trailing CRLF.
PartHeadersWithCrlf(frame_bytes) ==
    << <<"Content-Type", "image/jpeg">>,
       <<"Content-Length", ToDecimal(Len(frame_bytes) + 2)>> >>

\* The header lines of one part, as send_header formats them.
PartHeaders(frame_bytes) ==
    << <<"Content-Type", "image/jpeg">>,
       <<"Content-Length", ToDecimal(Len(frame_bytes))>> >>

\* A client connects; the connection waits in the listen queue of the server
\* socket, and what it asks for is read when it has been accepted.
Connect ==
    /\ srvpc # "unstarted"
    /\ ProcessAlive
    /\ backlog < MaxBacklog
    /\ backlog' = backlog + 1
    /\ UNCHANGED <<shared, pc, cvLocals, env, srvpc, alive, response,
                   frame, wire, history>>

\* The client of the request being handled goes away.
Disconnect ==
    /\ srvpc \notin {"unstarted", "serve", "finish"}
    /\ ProcessAlive
    /\ alive
    /\ alive' = FALSE
    /\ UNCHANGED <<shared, pc, cvLocals, env, srvpc, backlog, response, frame, wire, history>>

\* httpd.serve_forever() on HTTPServer: the one server thread accepts the
\* next connection only when no request is being handled, and handles it
\* itself: the request line it reads is GET path.
HandleRequest(path) ==
    /\ srvpc = "serve"
    /\ ProcessAlive
    /\ backlog > 0
    /\ srvpc' = Route(path)
    /\ backlog' = backlog - 1
    /\ alive' = TRUE
    /\ wire' = None
    /\ UNCHANGED <<shared, pc, cvLocals, env, response, frame,
                   history>>

Accept == \E path \in Paths : HandleRequest(path)

\* The handler method has returned, or raised into socketserver, which
\* reports the error: the request is shut down and serve_forever goes on.
FinishRequest ==
    /\ srvpc = "finish"
    /\ ProcessAlive
    /\ srvpc' = "serve"
    /\ alive' = FALSE
    /\ response' = None
    /\ frame' = None
    /\ wire' = None
    /\ UNCHANGED <<shared, pc, cvLocals, env, backlog, history>>

\* _send_html: the response line and headers.
SendHtmlHead ==
    /\ srvpc = "html"
    /\ ProcessAlive
    /\ IF alive
       THEN /\ wire' = ResponseHead(200, "text/html; charset=utf-8")
            /\ srvpc' = "html_body"
       ELSE /\ srvpc' = "finish"
            /\ UNCHANGED wire
    /\ UNCHANGED <<shared, pc, cvLocals, env, backlog, alive,
                   response, frame, history>>

\* _send_html: html_content = self._load_html_content() and its write.
SendHtmlBody ==
    /\ srvpc = "html_body"
    /\ ProcessAlive
    /\ \E outcome \in {"ok", "FileNotFoundError", "PermissionError"} :
          IF alive
          THEN wire' = [wire EXCEPT !.body = LoadHtmlContent(outcome)]
          ELSE UNCHANGED wire
    /\ srvpc' = "finish"
    /\ UNCHANGED <<shared, pc, cvLocals, env, backlog, alive,
                   response, frame, history>>

\* _send_404
Send404 ==
    /\ srvpc = "404"
    /\ ProcessAlive
    /\ IF alive
       THEN wire' = [ResponseHead(404, "text/plain") EXCEPT !.body = "404 Not Found"]
       ELSE UNCHANGED wire
    /\ srvpc' = "finish"
    /\ UNCHANGED <<shared, pc, cvLocals, env, backlog, alive,
                   response, frame, history>>

\* _send_status_json: the response line and headers.
SendStatusHead ==
    /\ srvpc = "status"
    /\ ProcessAlive
    /\ IF alive
       THEN /\ wire' = ResponseHead(200, "application/json")
            /\ srvpc' = "status_acq"
       ELSE /\ srvpc' = "finish"
            /\ UNCHANGED wire
    /\ UNCHANGED <<shared, pc, cvLocals, env, backlog, alive,
                   response, frame, history>>

\* The handler reading the status without waiting for the lock.
SrvStatusAcquireNoLock ==
    /\ srvpc = "status_acq"
    /\ ProcessAlive
    /\ srvpc' = "status_copy"
    /\ UNCHANGED <<shared, pc, cvLocals, env, backlog, alive, response,
                   frame, wire, history>>

\* _send_status_json: with status_lock: (entry)
SrvStatusAcquire ==
    /\ srvpc = "status_acq"
    /\ ProcessAlive
    /\ LockFree(status_lock)
    /\ status_lock' = "server"
    /\ srvpc' = "status_copy"
    /\ UNCHANGED <<current_ppe_status, latest_frame, frame_lock, pc, cvLocals,
                   env, backlog, alive, response, frame, wire, history>>

\* The copy with the write of the response inside the with block: the block
\* does not end after the copy.
SrvStatusCopyInBlock ==
    /\ srvpc = "status_copy"
    /\ ProcessAlive
    /\ response' = current_ppe_status
    /\ srvpc' = "status_write"
    /\ UNCHANGED <<shared, pc, cvLocals, env, backlog, alive, frame, wire,
                   history>>

\* response = current_ppe_status.copy(), and the end of the with block.
SrvStatusCopy ==
    /\ srvpc = "status_copy"
    /\ ProcessAlive
    /\ response' = current_ppe_status
    /\ status_lock' = "free"
    /\ srvpc' = "status_write"
    /\ UNCHANGED <<current_ppe_status, latest_frame, frame_lock, pc, cvLocals,
                   env, backlog, alive, frame, wire,
                   history>>

\* self.wfile.write(json.dumps(response).encode('utf-8')); the handler
\* returns and its local is gone.
SrvStatusWrite ==
    /\ srvpc = "status_write"
    /\ ProcessAlive
    /\ IF alive
       THEN wire' = [wire EXCEPT !.body = JsonDumps(response)]
       ELSE UNCHANGED wire
    /\ response' = None
    /\ srvpc' = "finish"
    /\ UNCHANGED <<shared, pc, cvLocals, env, backlog, alive, frame,
                   history>>

\* _send_video_feed: the response line and headers, before the try.
FeedHead ==
    /\ srvpc = "feed"
    /\ ProcessAlive
    /\ IF alive
       THEN /\ wire' = ResponseHead(200, "multipart/x-mixed-replace; boundary=frame")
            /\ srvpc' = "feed_acq"
       ELSE /\ srvpc' = "finish"
            /\ UNCHANGED wire
    /\ UNCHANGED <<shared, pc, cvLocals, env, backlog, alive,
                   response, frame, history>>

\* while True: with frame_lock: (entry)
FeedAcquire ==
    /\ srvpc = "feed_acq"
    /\ ProcessAlive
    /\ LockFree(frame_lock)
    /\ frame_lock' = "server"
    /\ srvpc' = "feed_check"
    /\ UNCHANGED <<current_ppe_status, status_lock, latest_frame, pc,
                   cvLocals, env, backlog, alive, response,
                   frame, wire, history>>

\* if latest_frame is None: the handler goes to time.sleep(0.1) inside the
\* with block; otherwise frame = latest_frame.copy() and the block ends.
FeedCheck ==
    /\ srvpc = "feed_check"
    /\ ProcessAlive
    /\ IF latest_frame = None
       THEN /\ srvpc' = "feed_sleep"
            /\ UNCHANGED <<frame, frame_lock>>
       ELSE /\ frame' = latest_frame
            /\ frame_lock' = "free"
            /\ srvpc' = "feed_encode"
    /\ UNCHANGED <<current_ppe_status, status_lock, latest_frame, pc,
                   cvLocals, env, backlog, alive, response,
                   wire, history>>

\* The loop starting again with the lock of the iteration before still
\* held.
FeedSleepInBlock ==
    /\ srvpc = "feed_sleep"
    /\ ProcessAlive
    /\ srvpc' = "feed_acq"
    /\ UNCHANGED <<shared, pc, cvLocals, env, backlog, alive, response, frame,
                   wire, history>>

\* time.sleep(0.1) is over; continue leaves the with block and the loop
\* starts again.
FeedSleep ==
    /\ srvpc = "feed_sleep"
    /\ ProcessAlive
    /\ frame_lock' = "free"
    /\ srvpc' = "feed_acq"
    /\ UNCHANGED <<current_ppe_status, status_lock, latest_frame, pc,
                   cvLocals, env, backlog, alive, response, frame, wire,
                   history>>

\* The loop starts again: the frame and the part of the iteration that ends
\* are not used again.
NextIteration ==
    /\ srvpc' = "feed_acq"
    /\ frame' = None
    /\ wire' = [wire EXCEPT !.part = None]

\* ret, buffer = cv2.imencode('.jpg', frame); if not ret: continue
FeedEncode ==
    /\ srvpc = "feed_encode"
    /\ ProcessAlive
    /\ \E ret \in BOOLEAN :
          IF ret
          THEN /\ srvpc' = "feed_write_head"
               /\ UNCHANGED <<frame, wire>>
          ELSE NextIteration
    /\ UNCHANGED <<shared, pc, cvLocals, env, backlog, alive, response,
                   history>>

\* The boundary line and the part's headers (end_headers writes them); a
\* failed write raises inside the try.
FeedWriteHead ==
    /\ srvpc = "feed_write_head"
    /\ ProcessAlive
    /\ IF alive
       THEN /\ wire' = [wire EXCEPT !.part =
                          [boundary |-> "--frame",
                           headers |-> PartHeaders(Encode(frame)),
                           payload |-> <<>>,
                           complete |-> FALSE]]
            /\ srvpc' = "feed_write_payload"
       ELSE /\ srvpc' = "feed_except"
            /\ UNCHANGED wire
    /\ UNCHANGED <<shared, pc, cvLocals, env, backlog, alive,
                   response, frame, history>>

\* self.wfile.write(frame_bytes); self.wfile.write(b'\r\n')
FeedWritePayload ==
    /\ srvpc = "feed_write_payload"
    /\ ProcessAlive
    /\ IF alive
       THEN /\ wire' = [wire EXCEPT !.part.payload = Encode(frame),
                                    !.part.complete = TRUE]
            /\ srvpc' = "feed_pace"
       ELSE /\ srvpc' = "feed_except"
            /\ UNCHANGED wire
    /\ UNCHANGED <<shared, pc, cvLocals, env, backlog, alive,
                   response, frame, history>>

\* time.sleep(0.033) is over.
FeedPace ==
    /\ srvpc = "feed_pace"
    /\ ProcessAlive
    /\ NextIteration
    /\ UNCHANGED <<shared, pc, cvLocals, env, backlog, alive, response,
                   history>>

\* The exception not caught in the handler and ending serve_forever.
FeedExceptUncaught ==
    /\ srvpc = "feed_except"
    /\ ProcessAlive
    /\ srvpc' = "dead"
    /\ UNCHANGED <<shared, pc, cvLocals, env, backlog, alive, response,
                   frame, wire, history>>

\* except Exception as e: print(...); the handler returns and its local is
\* gone.
FeedExcept ==
    /\ srvpc = "feed_except"
    /\ ProcessAlive
    /\ srvpc' = "finish"
    /\ frame' = None
    /\ UNCHANGED <<shared, pc, cvLocals, env, backlog, alive, response,
                   wire, history>>

SrvNext ==
    \/ Accept
    \/ FinishRequest
    \/ SendHtmlHead
    \/ SendHtmlBody
    \/ Send404
    \/ SendStatusHead
    \/ SrvStatusAcquire
    \/ SrvStatusCopy
    \/ SrvStatusWrite
    \/ FeedHead
    \/ FeedAcquire
    \/ FeedCheck
    \/ FeedSleep
    \/ FeedEncode
    \/ FeedWriteHead
    \/ FeedWritePayload
    \/ FeedPace
    \/ FeedExcept

EnvNext ==
    \/ Connect
    \/ Disconnect
    \/ Esp32Respond

Next == CvNext \/ SrvNext \/ EnvNext

Spec == Init /\ [][Next]_vars

(* ------------------------------------------------------------------ *)
(* Scheduling                                                          *)
(* ------------------------------------------------------------------ *)

\* cv2.imencode succeeds.
FeedEncodeOk == FeedEncode /\ srvpc' = "feed_write_head"

\* Each thread that can take a step takes one, the request to the ESP32
\* ends (timeout=0.5), and the encoder does not fail for ever. Nothing
\* makes the process end, a client connect or a client go away.
FairSpec ==
    /\ Init
    /\ [][Next]_vars
    /\ WF_vars(CvSteps)
    /\ WF_vars(SrvNext)
    /\ WF_vars(Esp32Respond)
    /\ SF_vars(FeedEncodeOk)

(* ------------------------------------------------------------------ *)
(* The detection loop on its own, and the status derivation on its own *)
(* ------------------------------------------------------------------ *)

\* The main thread with the ESP32 and no client: the capture device holds
\* MaxFramesCv frames.
InitCvOnly == InitFrames(MaxFramesCv)

NextCv == CvNext \/ Esp32Respond

SpecCv == InitCvOnly /\ [][NextCv]_vars

\* cv_loop when the first frame has been read: the inference may return any
\* list of at most MaxBoxes labels.
InitDerive ==
    /\ InitShared
    /\ pc = "infer"
    /\ cap = "open"
    /\ captured = 1
    /\ boxes = <<>>
    /\ ppe_status_local = None
    /\ annotated_frame = None
    /\ last_send = 0
    /\ current_time = 0
    /\ raised = FALSE
    /\ posts = 0
    /\ srvpc = "serve"
    /\ backlog = 0
    /\ alive = FALSE
    /\ response = None
    /\ frame = None
    /\ wire = None
    /\ now = StartTime
    /\ esp32 = [state |-> "idle", body |-> ""]
    /\ frames = 1
    /\ lastStatus = InitialStatus
    /\ nStatus = 0
    /\ nFrames = 0

NextDerive == InferFrom(BoxSeqs(MaxBoxes))

SpecDerive == InitDerive /\ [][NextDerive]_vars

(* ------------------------------------------------------------------ *)
(* Properties                                                          *)
(* ------------------------------------------------------------------ *)

StatusKeys == {"hardhat", "vest", "mask", "timestamp"}

\* The item flags of a status dict.
Flags(d) == [k \in Items |-> d[k]]

\* The label that denotes the absence of each item.
AbsenceLabel ==
    [hardhat |-> "NO-Hardhat", vest |-> "NO-Safety Vest", mask |-> "NO-Mask"]

\* An item is missing exactly when some detected label denotes its absence.
ExpectedFlags(bs) ==
    [item \in Items |->
        IF \E i \in 1..Len(bs) : bs[i] = AbsenceLabel[item] THEN 0 ELSE 1]

Reverse(sq) == [i \in 1..Len(sq) |-> sq[Len(sq) + 1 - i]]

\* C1: every value a handler copies out of a store is a value one cycle has
\* published in full (or the initial one): the status copied is the last
\* status a cycle finished publishing, never the flags of one cycle with the
\* timestamp of another, and the frame copied is a published frame.
C1_NoTornRead ==
    [][ /\ (response' # response /\ response' # None) => response' = lastStatus
        /\ (frame' # frame /\ frame' # None)
              => (frame' = latest_frame /\ nFrames > 0) ]_vars

\* A handler holds the copy of one cycle's status while the pipeline is in
\* the middle of publishing the next.
C1_Witness ==
    /\ srvpc = "status_write"
    /\ response # InitialStatus
    /\ pc = "status_stamp"
    /\ Flags(current_ppe_status) # Flags(response)

\* C2: in every state the status store, and every copy a handler took of
\* it, has exactly the keys hardhat, vest, mask and timestamp, each item
\* being 0 or 1; until the first frame is captured it is the initial value,
\* all items present.
C2_StatusKeys ==
    /\ DOMAIN current_ppe_status = StatusKeys
    /\ \A k \in Items : current_ppe_status[k] \in {0, 1}
    /\ captured = 0 => current_ppe_status = InitialStatus
    /\ \A k \in Items : InitialStatus[k] = 1
    /\ response # None =>
          /\ DOMAIN response = StatusKeys
          /\ \A k \in Items : response[k] \in {0, 1}

\* The pipeline is in the middle of a publish (flags written, timestamp
\* not yet) while a status handler waits for the lock.
C2_Witness ==
    /\ pc = "status_stamp"
    /\ current_ppe_status["hardhat"] = 0
    /\ srvpc = "status_acq"

\* C3: the status computed from a list of detected labels has an item at 0
\* exactly when some label of the list denotes that item's absence, and at 1
\* otherwise; the list reversed, or with every label twice, gives the same
\* status.
C3_MissingIffAbsenceLabel ==
    pc = "status_acq" =>
        /\ ppe_status_local = ExpectedFlags(boxes)
        /\ DeriveStatus(Reverse(boxes)) = ppe_status_local
        /\ DeriveStatus(boxes \o boxes) = ppe_status_local

\* A list with a duplicate absence label and an unrelated label.
C3_Witness ==
    /\ pc = "status_acq"
    /\ boxes = <<"NO-Hardhat", "Person", "NO-Hardhat">>
    /\ ppe_status_local = [hardhat |-> 0, vest |-> 1, mask |-> 1]

\* The positions of cv_loop between the publish of a frame and the next
\* cap.read().
AfterPublish ==
    {"time_check", "post", "post_wait", "set_last_send", "waitkey", "read"}

\* C4: when a cycle has published, the pipeline has published one status and
\* one frame for each frame captured so far, the frame store holds the
\* annotated frame of the last captured frame, and the flags in the status
\* store are those of that frame's detections alone, whatever an earlier
\* cycle published.
C4_OnePublishPerFrame ==
    /\ captured = 0 => (nStatus = 0 /\ nFrames = 0 /\ latest_frame = None)
    /\ (pc \in AfterPublish /\ captured > 0) =>
          /\ nStatus = captured
          /\ nFrames = captured
          /\ latest_frame = Plot(captured, boxes)
          /\ Flags(current_ppe_status) = ExpectedFlags(boxes)
    /\ pc \in {"status_stamp", "frame_acq", "frame_pub"} =>
          /\ Flags(current_ppe_status) = ExpectedFlags(boxes)
          /\ nFrames = captured - 1

\* The third cycle writes all items present over a status whose hardhat
\* flag the second cycle had published as missing.
C4_Witness ==
    /\ captured = 3
    /\ pc = "status_stamp"
    /\ lastStatus["hardhat"] = 0
    /\ Flags(current_ppe_status) = AllPresent

\* int(text) of a string of decimal digits.
DigitValue(c) == CHOOSE d \in 0..9 : Digit(d) = c

RECURSIVE ParseDecimal(_)
ParseDecimal(str) ==
    IF Len(str) = 0 THEN 0
    ELSE ParseDecimal(SubSeq(str, 1, Len(str) - 1)) * 10
         + DigitValue(SubSeq(str, Len(str), Len(str)))

\* The value of the header line called name.
HeaderValue(headers, name) ==
    LET i == CHOOSE j \in 1..Len(headers) : headers[j][1] = name
    IN  headers[i][2]

\* The positions of the loop of _send_video_feed, and those among them where
\* it waits for the first frame.
FeedLoop ==
    {"feed_acq", "feed_check", "feed_sleep", "feed_encode", "feed_write_head",
     "feed_write_payload", "feed_pace"}

FeedWaiting == {"feed_acq", "feed_check", "feed_sleep"}

\* The stream handler has written a whole part to its client.
PartWritten ==
    /\ srvpc \in FeedLoop \cup {"feed_except"}
    /\ wire.part # None
    /\ wire.part.complete

\* C5: while no frame has been published the stream handler stays in its
\* retry loop: it neither returns nor raises nor writes anything. A part it
\* writes has the boundary, Content-Type and Content-Length headers and a
\* payload as long as the Content-Length says. Once a frame has been
\* published a handler in its loop gets to write a whole part, unless its
\* client has gone away or the process has ended first.
C5_StreamWaitsThenSendsParts ==
    /\ [][ (nFrames = 0 /\ srvpc \in FeedWaiting)
              => (srvpc' \in FeedWaiting /\ wire' = wire) ]_vars
    /\ []((nFrames = 0 /\ srvpc \in FeedLoop)
              => (srvpc \in FeedWaiting /\ wire.part = None))
    /\ [](PartWritten =>
              /\ wire.part.boundary = "--frame"
              /\ HeaderValue(wire.part.headers, "Content-Type") = "image/jpeg"
              /\ ParseDecimal(HeaderValue(wire.part.headers, "Content-Length"))
                    = Len(wire.part.payload)
              /\ Len(wire.part.payload) > 0)
    /\ ((srvpc \in FeedLoop /\ nFrames > 0)
           ~> (PartWritten \/ ~alive \/ ~ProcessAlive))

\* A handler has written a part whose length takes two digits.
C5_Witness ==
    /\ srvpc = "feed_pace"
    /\ PartWritten
    /\ Len(wire.part.payload) >= 10
    /\ alive

\* C6: the stream handler holds frame_lock only while it copies the frame
\* out, never while it sleeps, encodes or writes.
C6_LockOnlyForCopy == frame_lock = "server" => srvpc = "feed_check"

\* C7: while one client is being streamed to, the connection of another
\* client that waits can be accepted.
C7_StreamDoesNotBlockAccept ==
    (srvpc \in FeedLoop /\ alive /\ backlog > 0) => ENABLED Accept

\* C8: a failed write on a stream connection goes to the handler's except
\* clause and changes neither store nor the pipeline's state; the handler
\* then returns, the server thread goes back to serving with no lock held,
\* and a waiting connection can be accepted.
C8_StreamFailureIsolated ==
    /\ [][ (srvpc \in {"feed_write_head", "feed_write_payload"} /\ ~alive
              /\ srvpc' # srvpc)
              => (srvpc' = "feed_except" /\ UNCHANGED <<shared, pc, cvLocals>>)
       ]_vars
    /\ [][ (srvpc = "feed_except" /\ srvpc' # srvpc)
              => (srvpc' = "finish" /\ UNCHANGED <<shared, pc, cvLocals>>)
       ]_vars
    /\ [][ (srvpc = "finish" /\ srvpc' # srvpc)
              => (srvpc' = "serve" /\ UNCHANGED <<shared, pc, cvLocals>>)
       ]_vars
    /\ [](srvpc \in {"feed_except", "finish", "serve"}
              => (frame_lock # "server" /\ status_lock # "server"))
    /\ []((srvpc = "serve" /\ backlog > 0 /\ ProcessAlive)
              => ENABLED Accept)

\* A write has failed on a stream while the pipeline is in a cycle and
\* another connection waits.
C8_Witness ==
    /\ srvpc = "feed_except"
    /\ pc = "infer"
    /\ nFrames > 0
    /\ backlog > 0

\* C9: while a request to the ESP32 is in flight the main thread can take
\* a step of cv_loop.
C9_ForwardAsync == esp32.state = "inflight" => ENABLED CvSteps

\* C10: whatever the request to the ESP32 ends in, cv_loop goes on to
\* last_send = current_time and from there to the end of the cycle, with no
\* exception in flight; the steps of the forward leave both stores as they
\* are; and a cycle posts at most once.
C10_ForwardOutcomeContained ==
    /\ [][ (pc = "post_wait" /\ pc' # pc)
              => (pc' = "set_last_send" /\ ~raised') ]_vars
    /\ [][ (pc = "set_last_send" /\ pc' # pc) => pc' = "waitkey" ]_vars
    /\ [][ (pc \in {"post", "post_wait", "set_last_send"})
              => (UNCHANGED <<current_ppe_status, latest_frame>>) ]_vars
    /\ [](posts <= 1)

\* A request has raised an exception that is neither a timeout nor a
\* connection error, and cv_loop is at last_send = current_time.
C10_Witness ==
    /\ pc = "set_last_send"
    /\ esp32.state = "Exception"
    /\ ~raised

\* C11: the body of every request sent to the ESP32 is the JSON object of
\* the three item flags computed from the detections of the cycle that sends
\* it, which are the flags that cycle published to the status store, and
\* has no timestamp member.
C11_ForwardCarriesCycleFlags ==
    esp32.state # "idle" =>
        /\ esp32.body = JsonDumps(ExpectedFlags(boxes))
        /\ esp32.body = JsonDumps(Flags(current_ppe_status))
        /\ esp32.body = JsonDumps(Flags(lastStatus))
        /\ ~StrIn("timestamp", esp32.body)
        /\ nStatus = captured

\* The second cycle forwards a status with the hardhat missing.
C11_Witness ==
    /\ esp32.state = "inflight"
    /\ captured = 2
    /\ esp32.body = "{\"hardhat\": 0, \"vest\": 1, \"mask\": 1}"

\* The response to GET / whose body is the message of an except clause of
\* _load_html_content.
HtmlLoadFailed ==
    /\ wire # None
    /\ wire.ctype = "text/html; charset=utf-8"
    /\ SubSeq(wire.body, 1, 5) = "Error"

\* C12: a response to GET / that reports a failed load of the document has
\* a status code other than 200.
C12_LoadFailureHasErrorStatus ==
    (srvpc = "finish" /\ HtmlLoadFailed) => wire.code # 200

\* cv_loop has returned or raised: the capture ended or was not opened, the
\* model was not loaded, or the operator quit.
PipelineStopped == pc \in {"join", "exited", "crashed"}

\* C13: when the pipeline has stopped the server thread still serves: it
\* accepts a connection that waits, and the handler of a request in
\* progress can take its next step.
C13_ServerOutlivesPipeline ==
    (PipelineStopped /\ srvpc # "unstarted") =>
        /\ (srvpc = "serve" /\ backlog > 0) => ENABLED Accept
        /\ srvpc # "serve" => ENABLED SrvNext

\* run_server past serve_forever, at httpd.server_close(). serve_forever
\* returns only on httpd.shutdown() or an exception raised in the server
\* thread; the handler errors are handled inside it.
ServerClosed == srvpc = "server_close"

\* C14: when the process exits after the end of the pipeline, the server
\* has been told to stop and has closed its listening socket.
C14_ServerClosedBeforeExit == pc = "exited" => ServerClosed

\* The positions of cv_loop inside its while loop.
LoopPositions ==
    {"read", "infer", "status_acq", "status_update", "status_stamp",
     "frame_acq", "frame_pub", "time_check", "post", "post_wait",
     "set_last_send", "waitkey"}

\* C15: every step that leaves the while loop goes to the finally clause;
\* the finally clause releases the open capture and changes neither a store
\* nor the state of the server thread; once the capture is released cv_loop
\* is over, so it is released once, and no status, frame or forward follows.
C15_CleanupOnEveryExit ==
    /\ [][ (pc \in LoopPositions /\ pc' \notin LoopPositions)
              => (pc' = "finally" /\ cap = "open") ]_vars
    /\ [][ (pc = "finally" /\ pc' # pc)
              => (cap = "open" /\ cap' = "released"
                  /\ UNCHANGED <<shared, srvVars>>) ]_vars
    /\ [][ (cap = "released")
              => (cap' = "released"
                  /\ UNCHANGED <<current_ppe_status, latest_frame, nStatus,
                                 nFrames, posts, esp32>>) ]_vars
    /\ [](cap = "released" => PipelineStopped)
    /\ [](PipelineStopped => cap \in {"unopened", "released"})

\* The detection call has raised in the second cycle and the capture is
\* released.
C15_Witness ==
    /\ cap = "released"
    /\ raised
    /\ captured = 2
    /\ nFrames = 1

\* C16: a cycle that has read the clock and not forwarded is a cycle in
\* which less than the interval had elapsed since the last forward: with the
\* interval elapsed exactly, the cycle forwards.
C16_ForwardAtExactInterval ==
    (pc = "waitkey" /\ posts = 0) => current_time - last_send < SEND_INTERVAL

\* C17: a request to the ESP32 is followed, whatever it ended in, by
\* last_send = current_time with the time the cycle read; last_send changes
\* nowhere else; a request is sent only when more than the interval has
\* passed since last_send, so not before the interval has elapsed since the
\* attempt before; and a cycle sends at most one.
C17_TimerResetAfterEveryAttempt ==
    /\ [][ (pc = "set_last_send" /\ pc' # pc)
              => (esp32.state \in Outcomes /\ last_send' = current_time) ]_vars
    /\ [][ (last_send' # last_send) => (pc = "set_last_send") ]_vars
    /\ [][ (posts' > posts) => (posts = 0 /\ pc = "post") ]_vars
    /\ [](esp32.state # "idle" => pc \in {"post_wait", "set_last_send"})
    /\ []((pc = "waitkey" /\ posts = 1) => last_send = current_time)
    /\ [](pc \in {"post", "post_wait", "set_last_send"}
              => current_time - last_send > SEND_INTERVAL)

\* The second cycle has forwarded, two seconds after the first, and the
\* timer is at the time the second cycle read.
C17_Witness ==
    /\ pc = "waitkey"
    /\ posts = 1
    /\ captured = 2
    /\ last_send = StartTime + 2
    /\ current_time = StartTime + 2

\* The positions where the server thread writes to its client, reads the
\* document or encodes a frame, and those where the main thread reads a
\* file or the camera, runs the inference or waits for the ESP32.
ServerIo ==
    {"html", "html_body", "404", "status", "status_write", "feed",
     "feed_encode", "feed_write_head", "feed_write_payload", "feed_except"}

MainIo == {"load_model", "open_cap", "read", "infer", "post", "post_wait"}

\* C18: a thread at a network or disk operation holds neither lock.
C18_NoLockAcrossIo ==
    /\ srvpc \in ServerIo => (status_lock # "server" /\ frame_lock # "server")
    /\ pc \in MainIo => (status_lock # "main" /\ frame_lock # "main")

\* The handler writes a part to its client while the pipeline holds
\* frame_lock to publish the next frame.
C18_Witness ==
    /\ srvpc = "feed_write_payload"
    /\ alive
    /\ frame_lock = "main"

\* A thread waits for a lock and cannot go on.
MainBlocked == pc \in {"status_acq", "frame_acq"} /\ ~ENABLED CvSteps

ServerBlocked == srvpc \in {"status_acq", "feed_acq"} /\ ~ENABLED SrvNext

\* C19: no thread holds both locks; a thread that asks for a lock does not
\* hold it; a thread that holds a lock is inside the with block of that lock
\* and can take its next step; and the two threads are never both blocked.
C19_NoLockCycle ==
    /\ ~(status_lock = "main" /\ frame_lock = "main")
    /\ ~(status_lock = "server" /\ frame_lock = "server")
    /\ pc = "status_acq" => status_lock # "main"
    /\ pc = "frame_acq" => frame_lock # "main"
    /\ srvpc = "status_acq" => status_lock # "server"
    /\ srvpc = "feed_acq" => frame_lock # "server"
    /\ status_lock = "main" => pc \in {"status_update", "status_stamp"}
    /\ frame_lock = "main" => pc = "frame_pub"
    /\ status_lock = "server" => srvpc = "status_copy"
    /\ frame_lock = "server" => srvpc \in {"feed_check", "feed_sleep"}
    /\ (status_lock = "main" \/ frame_lock = "main") => ENABLED CvSteps
    /\ ((status_lock = "server" \/ frame_lock = "server") /\ ProcessAlive)
          => ENABLED SrvNext
    /\ ~(MainBlocked /\ ServerBlocked)

\* The pipeline waits for frame_lock, which the stream handler holds in its
\* sleep; the handler can go on.
C19_Witness ==
    /\ MainBlocked
    /\ pc = "frame_acq"
    /\ srvpc = "feed_sleep"
    /\ frame_lock = "server"

\* C20: with the cycles numbered from 1, the frame store holds the frame of
\* cycle nFrames (nothing when nFrames = 0) and the status store the status
\* of cycle nStatus (the initial one when nStatus = 0; in the middle of a
\* publish the flags of the next cycle already); the status is of the same
\* cycle as the frame or of the next, and of the cycle in progress or the
\* one before.
C20_FrameNeverAheadOfStatus ==
    /\ nStatus \in {nFrames, nFrames + 1}
    /\ latest_frame = None <=> nFrames = 0
    /\ nFrames > 0 => latest_frame.img = nFrames
    /\ nStatus \in {captured - 1, captured}
    /\ nStatus = 0 => lastStatus = InitialStatus
    /\ pc # "status_stamp" => current_ppe_status = lastStatus
    /\ pc = "status_stamp" =>
          current_ppe_status["timestamp"] = lastStatus["timestamp"]

\* A status handler has copied the status of the second cycle while the
\* frame store still holds the frame of the first.
C20_Witness ==
    /\ srvpc = "status_write"
    /\ nStatus = 2
    /\ nFrames = 1
    /\ latest_frame.img = 1
    /\ response = lastStatus

====
